---- MODULE Spec2Model ----
(***************************************************************************)
(* Video_Analyzer: the frame index selector (_frame_indices), the sample   *)
(* budget planner (VideoAnalyzer._choose_sample_count), the frame          *)
(* extractor (sample_video_frames), the metadata reader                    *)
(* (get_video_metadata) and the request pipeline (analyze_video ->         *)
(* VideoAnalyzer.analyze).                                                 *)
(*                                                                         *)
(* Representation.  Python's None is the empty tuple.  An Optional[int] is *)
(* <<>> or <<n>>.  A float is an exact rational <<n, d>> with d > 0, an    *)
(* Optional[float] is <<>> or <<n, d>>.  A str is a tuple of one-character *)
(* strings, an Optional[str] is <<>> or <<s>>.                             *)
(***************************************************************************)
EXTENDS Integers, Sequences, FiniteSets, TLC

VARIABLES
    selCall,      \* a call of _frame_indices on its own
    planCall,     \* a call of _choose_sample_count on its own
    settings,     \* Settings: the configuration of the request
    request,      \* the form fields of the analyze_video request
    video,        \* what the decoder reports of the uploaded file
    pc,           \* where the request is
    temp_file,    \* the temporary copy of the upload exists
    open_caps,    \* cv2.VideoCapture handles opened and not released
    calls,        \* how often each external collaborator was called
    metadata,     \* analyze: metadata
    budget,       \* analyze: <<sample_target, effective_interval>>
    indices,      \* sample_video_frames: indices
    todo,         \* sample_video_frames: the indices the loop has yet to visit
    sampled,      \* sample_video_frames: samples
    failed,       \* the indices whose read or encode failed
    frames,       \* analyze: frames
    messages,     \* analyze: the user turn's content
    exc,          \* the exception analyze_video has seen
    response      \* what the caller gets

pureCalls == <<selCall, planCall>>

inputs == <<settings, request, video>>

extraction == <<indices, todo, sampled, failed>>

vars == <<selCall, planCall, settings, request, video, pc, temp_file, open_caps, calls,
          metadata, budget, indices, todo, sampled, failed, frames, messages, exc, response>>

None == <<>>

IsNone(x) == x = <<>>

Abs(n) == IF n < 0 THEN -n ELSE n

Min(a, b) == IF a <= b THEN a ELSE b

Max(a, b) == IF a >= b THEN a ELSE b

RECURSIVE GCD(_, _)
GCD(a, b) == IF b = 0 THEN a ELSE GCD(b, a % b)

RECURSIVE IsPowerOfTwo(_)
IsPowerOfTwo(n) == IF n = 1 THEN TRUE ELSE IF n % 2 = 1 THEN FALSE ELSE IsPowerOfTwo(n \div 2)

(* int(x) for the float x = a / b, b # 0: Python's int() truncates toward zero. *)
TruncDiv(a, b) ==
    LET q == Abs(a) \div Abs(b)
    IN  IF (a < 0) # (b < 0) THEN -q ELSE q

(* sorted(S) for a finite set of integers: the ascending list of its elements. *)
RECURSIVE Sorted(_)
Sorted(S) ==
    IF S = {} THEN <<>>
    ELSE LET m == CHOOSE x \in S : \A y \in S : x <= y
         IN  <<m>> \o Sorted(S \ {m})

Range(f) == {f[i] : i \in DOMAIN f}

(***************************************************************************)
(* _frame_indices                                                          *)
(***************************************************************************)

(* list(range(total_frames)) *)
RangeList(n) == [i \in 1..n |-> i - 1]

(* step = total_frames / samples is a binary double.  It is the exact      *)
(* quotient when the reduced denominator is a power of two.                *)
StepIsExact(total_frames, samples) == IsPowerOfTwo(samples \div GCD(total_frames, samples))

(* The values int(i * step) can take.  i * step is the exact product       *)
(* i * total_frames / samples up to one rounding of step and one of the    *)
(* product.  The error is far below 1 / samples, so the integer part is    *)
(* the exact floor unless the exact product is itself an integer k > 0     *)
(* and step is inexact; then the double may fall just below k and int()    *)
(* gives k - 1 (30 frames, 22 samples, i = 11: 14, not 15).                *)
IntOfProduct(i, total_frames, samples) ==
    LET k == (i * total_frames) \div samples
    IN  IF i > 0 /\ (i * total_frames) % samples = 0 /\ ~StepIsExact(total_frames, samples)
        THEN {k - 1, k}
        ELSE {k}

(* The i whose product is decided by rounding. *)
RoundedProducts(total_frames, samples) ==
    {i \in 0..(samples - 1) : Cardinality(IntOfProduct(i, total_frames, samples)) = 2}

(* Mutant: the step inverted, samples / total_frames. *)
DownsampleInvertedStep(total_frames, samples) ==
    {Sorted({(i * samples) \div total_frames : i \in 0..(samples - 1)})}

(* sorted({int(i * step) for i in range(samples)}), one list per way the   *)
(* rounded products can fall.                                              *)
Downsample(total_frames, samples) ==
    {Sorted({((i * total_frames) \div samples) - (IF i \in low THEN 1 ELSE 0) :
                i \in 0..(samples - 1)}) :
        low \in SUBSET RoundedProducts(total_frames, samples)}

(* Mutant: oversampling returns range(samples) instead of range(total_frames). *)
FrameIndicesRangeOfSamples(total_frames, samples) ==
    IF total_frames <= 0 \/ samples <= 0 THEN {<<>>}
    ELSE IF samples >= total_frames THEN {RangeList(samples)}
    ELSE Downsample(total_frames, samples)

(* The lists _frame_indices(total_frames, samples) can return: one list,   *)
(* except where rounding decides a product.                                *)
FrameIndices(total_frames, samples) ==
    IF total_frames <= 0 \/ samples <= 0 THEN {<<>>}
    ELSE IF samples >= total_frames THEN {RangeList(total_frames)}
    ELSE Downsample(total_frames, samples)

(***************************************************************************)
(* Settings and VideoAnalyzer._choose_sample_count                         *)
(***************************************************************************)

DefaultFrameSamples == 20

DefaultSecondsPerFrame == 2

DefaultMaxFrameSamples == 120

(* Settings() with no environment overrides. *)
DefaultSettings ==
    [openai_api_key |-> TRUE,
     frame_samples |-> DefaultFrameSamples,
     seconds_per_frame |-> <<DefaultSecondsPerFrame, 1>>,
     max_frame_samples |-> DefaultMaxFrameSamples]

(* Python truthiness of an Optional[int] / Optional[float]: None and zero are falsy. *)
Truthy(x) == ~IsNone(x) /\ x[1] # 0

(* baseline = max(frame_samples_override or self.settings.frame_samples, 1) *)
Baseline(frame_samples_override, cfg) ==
    Max(IF Truthy(frame_samples_override) THEN frame_samples_override[1]
        ELSE cfg.frame_samples, 1)

(* interval = interval_override or self.settings.seconds_per_frame *)
Interval(interval_override, cfg) ==
    IF Truthy(interval_override) THEN interval_override ELSE cfg.seconds_per_frame

(* metadata.duration_sec / interval raises ZeroDivisionError when the      *)
(* duration is truthy and the interval is 0.0.                             *)
ChooseRaises(meta, frame_samples_override, interval_override, cfg) ==
    /\ Truthy(meta.duration_sec)
    /\ Interval(interval_override, cfg)[1] = 0

(* Mutant: the "+ 1" of time_based dropped. *)
TimeBasedNoPlusOne(meta, baseline, interval) ==
    IF Truthy(meta.duration_sec)
    THEN TruncDiv(meta.duration_sec[1] * interval[2],
                  meta.duration_sec[2] * interval[1])
    ELSE baseline

(* time_based = baseline; if metadata.duration_sec:                        *)
(*     time_based = int(metadata.duration_sec / interval) + 1              *)
TimeBased(meta, baseline, interval) ==
    IF Truthy(meta.duration_sec)
    THEN TruncDiv(meta.duration_sec[1] * interval[2],
                  meta.duration_sec[2] * interval[1]) + 1
    ELSE baseline

(* Mutant: the max_frame_samples ceiling dropped. *)
ChooseNoCeiling(meta, frame_samples_override, interval_override, cfg) ==
    LET baseline == Baseline(frame_samples_override, cfg)
        interval == Interval(interval_override, cfg)
        target0 == Max(baseline, TimeBased(meta, baseline, interval))
        target1 == IF meta.frame_count > 0 THEN Min(target0, meta.frame_count)
                   ELSE target0
    IN  <<Max(target1, 1), interval>>

(* Mutant: target = time_based, the baseline floor dropped. *)
ChooseTimeBasedOnly(meta, frame_samples_override, interval_override, cfg) ==
    LET baseline == Baseline(frame_samples_override, cfg)
        interval == Interval(interval_override, cfg)
        target0 == TimeBased(meta, baseline, interval)
        target1 == IF meta.frame_count > 0 THEN Min(target0, meta.frame_count)
                   ELSE target0
        target2 == Min(target1, cfg.max_frame_samples)
    IN  <<Max(target2, 1), interval>>

(* The value _choose_sample_count returns when it does not raise:          *)
(* <<target, interval>>.                                                   *)
ChooseSampleCount(meta, frame_samples_override, interval_override, cfg) ==
    LET baseline == Baseline(frame_samples_override, cfg)
        interval == Interval(interval_override, cfg)
        time_based == TimeBased(meta, baseline, interval)
        target0 == Max(baseline, time_based)
        target1 == IF meta.frame_count > 0 THEN Min(target0, meta.frame_count)
                   ELSE target0
        target2 == Min(target1, cfg.max_frame_samples)
    IN  <<Max(target2, 1), interval>>

(***************************************************************************)
(* get_video_metadata, sample_video_frames, VideoAnalyzer.analyze and      *)
(* analyze_video: the parts that compute                                   *)
(***************************************************************************)

(* VideoMetadata of a file the decoder reports frame_count frames and fps  *)
(* frames per second of; the duration is absent unless fps > 0.            *)
GetVideoMetadata(v) ==
    [frame_count |-> v.frame_count,
     fps |-> <<v.fps, 1>>,
     duration_sec |-> IF v.fps > 0 THEN <<v.frame_count, v.fps>> ELSE None]

(* _encode_frame: the JPEG data URL of the decoded frame idx. *)
EncodeFrame(idx) == [scheme |-> "data:image/jpeg;base64", payload |-> idx]

(* FrameSample(index=idx, timestamp_sec=(idx / fps) if fps else None, data_url=...) *)
FrameSampleOf(idx, fps) ==
    [index |-> idx,
     timestamp_sec |-> IF fps # 0 THEN <<idx, fps>> ELSE None,
     data_url |-> EncodeFrame(idx)]

(* Mutant: cap.release() left out. *)
ReleaseSkipped(n) == n

(* cap.release() in a finally clause: the handle is given back. *)
Release(n) == n - 1

Whitespace == {" ", "\t", "\n"}

RECURSIVE LStrip(_)
LStrip(str) == IF str # <<>> /\ Head(str) \in Whitespace THEN LStrip(Tail(str)) ELSE str

RECURSIVE RStrip(_)
RStrip(str) ==
    IF str # <<>> /\ str[Len(str)] \in Whitespace THEN RStrip(SubSeq(str, 1, Len(str) - 1))
    ELSE str

(* str.strip() *)
Strip(str) == RStrip(LStrip(str))

(* The fixed default instruction. *)
DefaultInstruction ==
    <<"Provide a rich, chronological explanation of the video. Summarize intent and outcome, list scene changes, key actions, subjects/objects, and notable visual cues. Reference timestamps when visible.">>

(* user_instruction = instruction.strip() if instruction else (default):   *)
(* the test is on the instruction as given, before it is stripped.         *)
UserInstruction(instruction) ==
    IF ~IsNone(instruction) /\ instruction[1] # <<>> THEN Strip(instruction[1])
    ELSE DefaultInstruction

(* _build_user_content: the instruction text, then one image per frame in order. *)
BuildUserContent(instruction, frameList) ==
    <<[type |-> "text", text |-> instruction]>>
        \o [i \in 1..Len(frameList) |-> [type |-> "image_url", image_url |-> frameList[i].data_url]]

(* Mutant: the emptiness test of analyze never fires. *)
NoFramesNever(frameList) == FALSE

(* if not frames: *)
NoFrames(frameList) == frameList = <<>>

NoExc == [type |-> "none", msg |-> ""]

UnableToRead == [type |-> "ValueError", msg |-> "Unable to read the provided video file."]

CouldNotSample ==
    [type |-> "ValueError", msg |-> "Could not sample frames from the provided video."]

FailedToEncode == [type |-> "ValueError", msg |-> "Failed to encode frame."]

(* What the decoder, the division and the OpenAI client raise: not ValueErrors. *)
DecoderError == [type |-> "cv2.error", msg |-> ""]

ZeroDivision == [type |-> "ZeroDivisionError", msg |-> "float division by zero"]

InferenceError == [type |-> "openai.APIError", msg |-> ""]

NoResponse == [kind |-> "none"]

HTTPException(code, text) == [kind |-> "HTTPException", status_code |-> code, detail |-> text]

(* Mutant: except Exception instead of except ValueError. *)
EndpointExceptAny(e) == HTTPException(400, e.msg)

(* analyze_video's handler around analyzer.analyze: a ValueError becomes   *)
(* HTTP 400 with its message, anything else leaves the endpoint as raised. *)
EndpointExcept(e) ==
    IF e.type = "ValueError" THEN HTTPException(400, e.msg)
    ELSE [kind |-> "propagated", exception |-> e.type]

(* The checks of analyze_video before the upload is saved, in order. *)
RequestRejection(cfg, req) ==
    IF ~cfg.openai_api_key THEN HTTPException(500, "OPENAI_API_KEY is not configured.")
    ELSE IF ~req.content_type_is_video THEN HTTPException(400, "Please upload a valid video file.")
    ELSE IF ~IsNone(req.frame_samples) /\ req.frame_samples[1] <= 0
        THEN HTTPException(400, "frame_samples must be positive.")
    ELSE IF ~IsNone(req.seconds_per_frame) /\ req.seconds_per_frame[1] <= 0
        THEN HTTPException(400, "seconds_per_frame must be positive.")
    ELSE NoResponse

(* VideoAnalysisResponse(...) as analyze fills it. *)
AnalysisResponse(completion, frameList, instruction, meta, plan) ==
    LET content == IF completion.choices # <<>> THEN completion.choices[1].content ELSE <<"">>
        stamped == SelectSeq(frameList, LAMBDA f : ~IsNone(f.timestamp_sec))
    IN  [summary |-> IF IsNone(content) THEN "" ELSE content[1],
         frames_used |-> Len(frameList),
         frame_timestamps |-> [i \in 1..Len(stamped) |-> stamped[i].timestamp_sec],
         prompt |-> instruction,
         total_frames |-> IF meta.frame_count # 0 THEN <<meta.frame_count>> ELSE None,
         video_duration_sec |-> meta.duration_sec,
         sampling_interval_sec |-> plan[2],
         requested_frame_samples |-> plan[1]]

(***************************************************************************)
(* Bounds of the checked instances                                         *)
(***************************************************************************)

MaxTotalFrames == 12

MaxSamples == 12

MaxFrameCount == 5

MaxDuration == 4

MaxOverride == 4

MaxConfigSamples == 3

MaxConfigCeiling == 4

MaxInstructionLen == 2

MaxVideoFrames == 4

MaxPipelineSamples == 2

(***************************************************************************)
(* The selector called on its own                                          *)
(***************************************************************************)

NotCalled == [pc |-> "idle"]

NoCalls == [metadata |-> 0, sample |-> 0, inference |-> 0]

(* The locals of a request that has computed nothing yet. *)
RequestFresh ==
    /\ temp_file = FALSE
    /\ open_caps = 0
    /\ calls = NoCalls
    /\ metadata = None
    /\ budget = None
    /\ indices = <<>>
    /\ todo = <<>>
    /\ sampled = <<>>
    /\ failed = {}
    /\ frames = None
    /\ messages = <<>>
    /\ exc = NoExc
    /\ response = NoResponse

(* No request: the state of the pipeline while a function is called on its own. *)
NoRequest ==
    /\ settings = DefaultSettings
    /\ request = [content_type_is_video |-> TRUE, instruction |-> None,
                  frame_samples |-> None, seconds_per_frame |-> None]
    /\ video = [frame_count |-> 0, fps |-> 0]
    /\ pc = "idle"
    /\ RequestFresh

pipeline == <<settings, request, video, pc, temp_file, open_caps, calls, metadata, budget,
              indices, todo, sampled, failed, frames, messages, exc, response>>

SelInit ==
    /\ selCall \in [pc : {"call"}, total_frames : (-1)..MaxTotalFrames,
                    samples : (-1)..MaxSamples, result : {<<>>}]
    /\ planCall = NotCalled
    /\ NoRequest

SelReturn ==
    /\ selCall.pc = "call"
    /\ \E r \in FrameIndices(selCall.total_frames, selCall.samples) :
            selCall' = [selCall EXCEPT !.pc = "returned", !.result = r]
    /\ UNCHANGED <<planCall, pipeline>>

SelNext == SelReturn

SpecSelector == SelInit /\ [][SelNext]_vars

(***************************************************************************)
(* The planner called on its own                                           *)
(***************************************************************************)

(* Floats of the instance: halves between bounds. *)
Rationals(lo, hi) == {<<n, d>> : n \in lo..hi, d \in 1..2}

PlanMetadata ==
    [frame_count : (-1)..MaxFrameCount,
     fps : {<<0, 1>>},
     duration_sec : {None} \cup Rationals(-1, MaxDuration)]

PlanSettings ==
    [openai_api_key : {TRUE},
     frame_samples : 0..MaxConfigSamples,
     seconds_per_frame : {<<0, 1>>, <<1, 2>>, <<1, 1>>, <<2, 1>>},
     max_frame_samples : 0..MaxConfigCeiling]

PlanInit ==
    /\ planCall \in [pc : {"call"},
                     metadata : PlanMetadata,
                     frame_samples_override : {None} \cup {<<n>> : n \in (-1)..MaxOverride},
                     interval_override : {None, <<0, 1>>, <<-1, 1>>, <<1, 2>>, <<3, 1>>},
                     settings : PlanSettings,
                     result : {<<>>}]
    /\ selCall = NotCalled
    /\ NoRequest

PlanReturn ==
    /\ planCall.pc = "call"
    /\ ~ChooseRaises(planCall.metadata, planCall.frame_samples_override,
                     planCall.interval_override, planCall.settings)
    /\ planCall' = [planCall EXCEPT !.pc = "returned",
                        !.result = ChooseSampleCount(planCall.metadata,
                                        planCall.frame_samples_override,
                                        planCall.interval_override, planCall.settings)]
    /\ UNCHANGED <<selCall, pipeline>>

PlanRaise ==
    /\ planCall.pc = "call"
    /\ ChooseRaises(planCall.metadata, planCall.frame_samples_override,
                    planCall.interval_override, planCall.settings)
    /\ planCall' = [planCall EXCEPT !.pc = "raised"]
    /\ UNCHANGED <<selCall, pipeline>>

PlanNext == PlanReturn \/ PlanRaise

SpecPlanner == PlanInit /\ [][PlanNext]_vars

(***************************************************************************)
(* One analyze_video request                                               *)
(***************************************************************************)

(* The strings over {" ", "a"} up to the bound. *)
Instructions == UNION {[1..n -> {" ", "a"}] : n \in 0..MaxInstructionLen}

Requests ==
    [content_type_is_video : BOOLEAN,
     instruction : {None} \cup {<<str>> : str \in Instructions},
     frame_samples : {None, <<0>>, <<1>>, <<MaxPipelineSamples + 1>>},
     seconds_per_frame : {None, <<-1, 1>>, <<1, 2>>}]

RequestSettings ==
    [openai_api_key : BOOLEAN,
     frame_samples : 1..MaxPipelineSamples,
     seconds_per_frame : {<<0, 1>>, <<1, 1>>},
     max_frame_samples : {MaxPipelineSamples + 1}]

Videos == [frame_count : (-1)..MaxVideoFrames, fps : 0..2]

Init ==
    /\ selCall = NotCalled
    /\ planCall = NotCalled
    /\ settings \in RequestSettings
    /\ request \in Requests
    /\ video \in Videos
    /\ pc = "request"
    /\ RequestFresh

(* An exception leaves analyzer.analyze: the except clause answers, the    *)
(* finally clause unlinks the temporary file.                              *)
Fail(e) ==
    /\ exc' = e
    /\ response' = EndpointExcept(e)
    /\ temp_file' = FALSE
    /\ pc' = "done"

(* analyze_video, lines 36-48: a check fails, HTTPException is raised. *)
RejectRequest ==
    /\ pc = "request"
    /\ RequestRejection(settings, request) # NoResponse
    /\ response' = RequestRejection(settings, request)
    /\ pc' = "done"
    /\ UNCHANGED <<pureCalls, inputs, temp_file, open_caps, calls, metadata, budget,
                   extraction, frames, messages, exc>>

(* analyze_video, lines 50-54: the upload is saved and analyze is entered. *)
AcceptRequest ==
    /\ pc = "request"
    /\ RequestRejection(settings, request) = NoResponse
    /\ temp_file' = TRUE
    /\ pc' = "get_video_metadata"
    /\ UNCHANGED <<pureCalls, inputs, open_caps, calls, metadata, budget,
                   extraction, frames, messages, exc, response>>

(* get_video_metadata: cv2.VideoCapture opens the file. *)
MetadataOpen ==
    /\ pc = "get_video_metadata"
    /\ calls' = [calls EXCEPT !.metadata = @ + 1]
    /\ open_caps' = open_caps + 1
    /\ pc' = "metadata_try"
    /\ UNCHANGED <<pureCalls, inputs, temp_file, metadata, budget, extraction, frames,
                   messages, exc, response>>

(* get_video_metadata: cap.isOpened() is false, no handle is held, ValueError. *)
MetadataOpenFails ==
    /\ pc = "get_video_metadata"
    /\ calls' = [calls EXCEPT !.metadata = @ + 1]
    /\ Fail(UnableToRead)
    /\ UNCHANGED <<pureCalls, inputs, open_caps, metadata, budget, extraction, frames, messages>>

(* get_video_metadata: the try block returns, the finally clause releases. *)
MetadataReturn ==
    /\ pc = "metadata_try"
    /\ metadata' = GetVideoMetadata(video)
    /\ open_caps' = Release(open_caps)
    /\ pc' = "choose_sample_count"
    /\ UNCHANGED <<pureCalls, inputs, temp_file, calls, budget, extraction, frames,
                   messages, exc, response>>

(* get_video_metadata: the decoder raises in the try block, the finally    *)
(* clause releases.                                                        *)
MetadataRaises ==
    /\ pc = "metadata_try"
    /\ open_caps' = Release(open_caps)
    /\ Fail(DecoderError)
    /\ UNCHANGED <<pureCalls, inputs, calls, metadata, budget, extraction, frames, messages>>

(* analyze, lines 27-29. *)
PlanBudget ==
    /\ pc = "choose_sample_count"
    /\ ~ChooseRaises(metadata, request.frame_samples, request.seconds_per_frame, settings)
    /\ budget' = ChooseSampleCount(metadata, request.frame_samples,
                                   request.seconds_per_frame, settings)
    /\ pc' = "sample_video_frames"
    /\ UNCHANGED <<pureCalls, inputs, temp_file, open_caps, calls, metadata, extraction,
                   frames, messages, exc, response>>

(* analyze, lines 27-29: the division by a zero interval raises. *)
PlanBudgetRaises ==
    /\ pc = "choose_sample_count"
    /\ ChooseRaises(metadata, request.frame_samples, request.seconds_per_frame, settings)
    /\ Fail(ZeroDivision)
    /\ UNCHANGED <<pureCalls, inputs, open_caps, calls, metadata, budget, extraction,
                   frames, messages>>

(* sample_video_frames, lines 79-87: the file opens, the indices are       *)
(* selected (analyze passes no explicit indices).                          *)
SampleOpen ==
    /\ pc = "sample_video_frames"
    /\ calls' = [calls EXCEPT !.sample = @ + 1]
    /\ open_caps' = open_caps + 1
    /\ \E selected \in FrameIndices(video.frame_count, budget[1]) :
            /\ indices' = selected
            /\ todo' = selected
    /\ sampled' = <<>>
    /\ failed' = {}
    /\ pc' = "extracting"
    /\ UNCHANGED <<pureCalls, inputs, temp_file, metadata, budget, frames, messages,
                   exc, response>>

(* sample_video_frames, lines 79-81. *)
SampleOpenFails ==
    /\ pc = "sample_video_frames"
    /\ calls' = [calls EXCEPT !.sample = @ + 1]
    /\ Fail(UnableToRead)
    /\ UNCHANGED <<pureCalls, inputs, open_caps, metadata, budget, extraction, frames, messages>>

(* What a skipped index leaves behind: continue. *)
SkipIndex ==
    /\ todo' = Tail(todo)
    /\ failed' = failed \cup {Head(todo)}
    /\ UNCHANGED <<pureCalls, inputs, temp_file, open_caps, calls, metadata, budget,
                   indices, sampled, frames, messages, exc, response, pc>>

(* Mutant: the ValueError of _encode_frame is not caught. *)
ExtractEncodeFailsUncaught ==
    /\ pc = "extracting"
    /\ todo # <<>>
    /\ open_caps' = Release(open_caps)
    /\ failed' = failed \cup {Head(todo)}
    /\ Fail(FailedToEncode)
    /\ UNCHANGED <<pureCalls, inputs, calls, metadata, budget, indices, todo, sampled,
                   frames, messages>>

(* The loop, lines 90-93: cap.read() fails for the index, it is skipped. *)
ExtractReadFails ==
    /\ pc = "extracting"
    /\ todo # <<>>
    /\ SkipIndex

(* The loop, lines 95-98: _encode_frame raises ValueError, it is skipped. *)
ExtractEncodeFails ==
    /\ pc = "extracting"
    /\ todo # <<>>
    /\ SkipIndex

(* The loop, lines 90-99: the frame is read, encoded and appended. *)
ExtractFrame ==
    /\ pc = "extracting"
    /\ todo # <<>>
    /\ sampled' = Append(sampled, FrameSampleOf(Head(todo), video.fps))
    /\ todo' = Tail(todo)
    /\ UNCHANGED <<pureCalls, inputs, temp_file, open_caps, calls, metadata, budget,
                   indices, failed, frames, messages, exc, response, pc>>

(* The loop: the decoder raises, the finally clause releases. *)
ExtractRaises ==
    /\ pc = "extracting"
    /\ todo # <<>>
    /\ open_caps' = Release(open_caps)
    /\ Fail(DecoderError)
    /\ UNCHANGED <<pureCalls, inputs, calls, metadata, budget, extraction, frames, messages>>

(* sample_video_frames, lines 101-103: the loop is over. *)
SampleReturn ==
    /\ pc = "extracting"
    /\ todo = <<>>
    /\ frames' = <<sampled>>
    /\ open_caps' = Release(open_caps)
    /\ pc' = "check_frames"
    /\ UNCHANGED <<pureCalls, inputs, temp_file, calls, metadata, budget, extraction,
                   messages, exc, response>>

(* analyze, lines 32-33. *)
RaiseNoFrames ==
    /\ pc = "check_frames"
    /\ NoFrames(frames[1])
    /\ Fail(CouldNotSample)
    /\ UNCHANGED <<pureCalls, inputs, open_caps, calls, metadata, budget, extraction,
                   frames, messages>>

(* analyze, lines 35-51. *)
BuildPrompt ==
    /\ pc = "check_frames"
    /\ ~NoFrames(frames[1])
    /\ messages' = BuildUserContent(UserInstruction(request.instruction), frames[1])
    /\ pc' = "inference"
    /\ UNCHANGED <<pureCalls, inputs, temp_file, open_caps, calls, metadata, budget,
                   extraction, frames, exc, response>>

(* What chat.completions.create returns: no choice, or one whose content   *)
(* is None, empty or text.                                                 *)
Completions ==
    {[choices |-> <<>>]}
        \cup {[choices |-> <<[content |-> c]>>] : c \in {None, <<"">>, <<"summary">>}}

(* analyze, lines 53-71, and the endpoint's return and finally. *)
InferenceReturns ==
    /\ pc = "inference"
    /\ calls' = [calls EXCEPT !.inference = @ + 1]
    /\ \E completion \in Completions :
            response' = [kind |-> "ok", status_code |-> 200,
                         body |-> AnalysisResponse(completion, frames[1], messages[1].text,
                                                   metadata, budget)]
    /\ temp_file' = FALSE
    /\ pc' = "done"
    /\ UNCHANGED <<pureCalls, inputs, open_caps, metadata, budget, extraction, frames,
                   messages, exc>>

(* analyze, lines 53-58: the OpenAI client raises. *)
InferenceFails ==
    /\ pc = "inference"
    /\ calls' = [calls EXCEPT !.inference = @ + 1]
    /\ Fail(InferenceError)
    /\ UNCHANGED <<pureCalls, inputs, open_caps, metadata, budget, extraction, frames, messages>>

Next ==
    \/ RejectRequest
    \/ AcceptRequest
    \/ MetadataOpen
    \/ MetadataOpenFails
    \/ MetadataReturn
    \/ MetadataRaises
    \/ PlanBudget
    \/ PlanBudgetRaises
    \/ SampleOpen
    \/ SampleOpenFails
    \/ ExtractReadFails
    \/ ExtractEncodeFails
    \/ ExtractFrame
    \/ ExtractRaises
    \/ SampleReturn
    \/ RaiseNoFrames
    \/ BuildPrompt
    \/ InferenceReturns
    \/ InferenceFails

Spec == Init /\ [][Next]_vars

(***************************************************************************)
(* Properties of the selector                                              *)
(***************************************************************************)

StrictlyIncreasing(seq) == \A i \in 1..(Len(seq) - 1) : seq[i] < seq[i + 1]

(* C2: for all total_frames >= 0 and samples >= 0 the list returned by     *)
(* _frame_indices is strictly increasing, every element lies in            *)
(* [0, total_frames), and its length is <= samples and <= total_frames.    *)
C2_SelectorOutput ==
    (selCall.pc = "returned" /\ selCall.total_frames >= 0 /\ selCall.samples >= 0) =>
        /\ StrictlyIncreasing(selCall.result)
        /\ \A i \in 1..Len(selCall.result) :
                selCall.result[i] >= 0 /\ selCall.result[i] < selCall.total_frames
        /\ Len(selCall.result) <= selCall.samples
        /\ Len(selCall.result) <= selCall.total_frames

(* The selector has downsampled 10 frames to 3. *)
C2_Witness ==
    /\ selCall.pc = "returned"
    /\ selCall.total_frames = 10
    /\ selCall.samples = 3
    /\ selCall.result = <<0, 3, 6>>

(* C10 as stated: among the downsampling inputs 0 < samples < total_frames *)
(* of the instance the selector has been called on, some input makes the   *)
(* returned list strictly shorter than samples.                            *)
C10_SomeInputIsShortened ==
    selCall.pc = "returned" =>
        \E total_frames \in 0..MaxTotalFrames, samples \in 0..MaxSamples :
            /\ 0 < samples
            /\ samples < total_frames
            /\ \E r \in FrameIndices(total_frames, samples) : Len(r) < samples

(* C10 amended: in the downsampling case 0 < samples < total_frames the    *)
(* step exceeds 1, the floored products are pairwise distinct, and the     *)
(* returned list has exactly samples elements.                             *)
C10_DownsampleKeepsCount ==
    (/\ selCall.pc = "returned"
     /\ 0 < selCall.samples
     /\ selCall.samples < selCall.total_frames) =>
        Len(selCall.result) = selCall.samples

(* The selector has downsampled a video one frame longer than the request. *)
C10_Witness ==
    /\ selCall.pc = "returned"
    /\ selCall.samples >= 3
    /\ selCall.total_frames = selCall.samples + 1
    /\ Len(selCall.result) = selCall.samples

(***************************************************************************)
(* Properties of the planner                                               *)
(***************************************************************************)

PlanTarget == planCall.result[1]

(* C1 as stated: the target is >= 1, <= max_frame_samples, and             *)
(* <= frame_count when frame_count > 0, for every configuration.           *)
C1_TargetBounds ==
    planCall.pc = "returned" =>
        /\ PlanTarget >= 1
        /\ PlanTarget <= planCall.settings.max_frame_samples
        /\ (planCall.metadata.frame_count > 0 => PlanTarget <= planCall.metadata.frame_count)

(* C1 amended: the target is >= 1, is <= frame_count when frame_count > 0, *)
(* and is <= max_frame_samples when the configured max_frame_samples is    *)
(* itself >= 1.                                                            *)
C1_TargetBoundsPositiveCeiling ==
    planCall.pc = "returned" =>
        /\ PlanTarget >= 1
        /\ (planCall.settings.max_frame_samples >= 1 =>
                PlanTarget <= planCall.settings.max_frame_samples)
        /\ (planCall.metadata.frame_count > 0 => PlanTarget <= planCall.metadata.frame_count)

(* The ceiling has cut a larger demand on a video with more frames. *)
C1_Witness ==
    /\ planCall.pc = "returned"
    /\ planCall.settings.max_frame_samples >= 2
    /\ PlanTarget = planCall.settings.max_frame_samples
    /\ planCall.metadata.frame_count > PlanTarget
    /\ Baseline(planCall.frame_samples_override, planCall.settings) > PlanTarget

(* floor(a / b) for b # 0. *)
FloorDiv(a, b) == IF b > 0 THEN a \div b ELSE (-a) \div (-b)

(* The seven-step policy as the specification words it: the duration is    *)
(* unknown when absent, and time_based takes the floor of the quotient.    *)
PolicyTarget(meta, frame_samples_override, interval_override, cfg) ==
    LET baseline == Max(IF Truthy(frame_samples_override) THEN frame_samples_override[1]
                        ELSE cfg.frame_samples, 1)
        interval == IF Truthy(interval_override) THEN interval_override
                    ELSE cfg.seconds_per_frame
        time_based == IF IsNone(meta.duration_sec) THEN baseline
                      ELSE FloorDiv(meta.duration_sec[1] * interval[2],
                                    meta.duration_sec[2] * interval[1]) + 1
        wanted == Max(baseline, time_based)
        capped == Min(IF meta.frame_count > 0 THEN Min(wanted, meta.frame_count)
                      ELSE wanted,
                      cfg.max_frame_samples)
    IN  <<Max(1, capped), interval>>

(* The 300 s example of the specification. *)
LongVideo == [frame_count |-> 10000, fps |-> <<100, 3>>, duration_sec |-> <<300, 1>>]

(* C3: whenever _choose_sample_count returns, with the non-zero interval   *)
(* the policy's division needs, it returns the target and the interval of  *)
(* the seven-step policy; 300 s at interval 2, baseline 20, max 120 and    *)
(* 10000 frames gives time_based 151 and target 120.                       *)
C3_PlannerIsPolicy ==
    /\ (/\ planCall.pc = "returned"
        /\ Interval(planCall.interval_override, planCall.settings)[1] # 0) =>
            planCall.result = PolicyTarget(planCall.metadata, planCall.frame_samples_override,
                                           planCall.interval_override, planCall.settings)
    /\ TimeBased(LongVideo, DefaultFrameSamples, <<DefaultSecondsPerFrame, 1>>) = 151
    /\ ChooseSampleCount(LongVideo, None, None, DefaultSettings)
            = <<DefaultMaxFrameSamples, <<DefaultSecondsPerFrame, 1>>>>

(* The time-based demand has decided the target, above the baseline. *)
C3_Witness ==
    /\ planCall.pc = "returned"
    /\ Truthy(planCall.metadata.duration_sec)
    /\ PlanTarget > Baseline(planCall.frame_samples_override, planCall.settings)
    /\ PlanTarget = TimeBased(planCall.metadata,
                              Baseline(planCall.frame_samples_override, planCall.settings),
                              planCall.result[2])

(* The baseline as C4 words it: the override when given, else the configured value. *)
ClaimedBaseline ==
    IF IsNone(planCall.frame_samples_override) THEN planCall.settings.frame_samples
    ELSE planCall.frame_samples_override[1]

(* C4 as stated: the target is never below the baseline. *)
C4_NeverBelowBaseline ==
    planCall.pc = "returned" => PlanTarget >= ClaimedBaseline

(* C4 amended: the target is never below the baseline when the baseline    *)
(* exceeds neither max_frame_samples nor a known positive frame_count;     *)
(* those two clamps are applied after the baseline floor.                  *)
C4_NeverBelowBaselineUnlessClamped ==
    (/\ planCall.pc = "returned"
     /\ ClaimedBaseline <= planCall.settings.max_frame_samples
     /\ (planCall.metadata.frame_count > 0 => ClaimedBaseline <= planCall.metadata.frame_count)) =>
        PlanTarget >= ClaimedBaseline

(* A very short video: the time-based demand is below the baseline, which is kept. *)
C4_Witness ==
    /\ planCall.pc = "returned"
    /\ Truthy(planCall.metadata.duration_sec)
    /\ ClaimedBaseline >= 2
    /\ TimeBased(planCall.metadata, ClaimedBaseline, planCall.result[2]) < ClaimedBaseline
    /\ PlanTarget = ClaimedBaseline

(***************************************************************************)
(* Properties of the request pipeline                                      *)
(***************************************************************************)

FrameIndexList(frameList) == [i \in 1..Len(frameList) |-> frameList[i].index]

NotFailed(i) == i \notin failed

(* The indices the loop has visited so far. *)
Visited == SubSeq(indices, 1, Len(indices) - Len(todo))

(* C5: per-frame read and encode failures never raise; the loop walks the  *)
(* selected indices in order and collects exactly the frames of the        *)
(* indices that did not fail, in that order; and analyze raises "Could not *)
(* sample frames" exactly when extraction ended with every selected index  *)
(* failed or with no index selected.                                       *)
C5_ExtractionTolerant ==
    /\ exc # FailedToEncode
    /\ pc = "extracting" =>
            /\ indices = Visited \o todo
            /\ FrameIndexList(sampled) = SelectSeq(Visited, NotFailed)
    /\ ~IsNone(frames) => FrameIndexList(frames[1]) = SelectSeq(indices, NotFailed)
    /\ exc = CouldNotSample => ~IsNone(frames)
    /\ (~IsNone(frames) /\ pc # "check_frames") =>
            (exc = CouldNotSample <=> \A i \in Range(indices) : i \in failed)

(* Three indices were selected, the middle one failed, the other two came  *)
(* back and the request went on to its answer.                             *)
C5_Witness ==
    /\ pc = "done"
    /\ response.kind = "ok"
    /\ Len(indices) = 3
    /\ failed = {indices[2]}
    /\ FrameIndexList(frames[1]) = <<indices[1], indices[3]>>

IsClientError(r) == r.kind = "HTTPException" /\ r.status_code = 400

(* C7: an unreadable video (at either open) and an empty extraction are    *)
(* answered with HTTP 400; a failed inference call is never answered with  *)
(* HTTP 400 but leaves the endpoint as the exception it is; no collaborator*)
(* is called twice, and a request that saw an exception is over and has no *)
(* successful answer.                                                      *)
C7_FailurePropagation ==
    /\ exc = UnableToRead => response = HTTPException(400, UnableToRead.msg)
    /\ exc = CouldNotSample => response = HTTPException(400, CouldNotSample.msg)
    /\ exc = InferenceError =>
            /\ ~IsClientError(response)
            /\ response = [kind |-> "propagated", exception |-> InferenceError.type]
    /\ calls.metadata <= 1 /\ calls.sample <= 1 /\ calls.inference <= 1
    /\ exc # NoExc => pc = "done" /\ response.kind \notin {"ok", "none"}
    /\ response.kind = "ok" => exc = NoExc

(* The inference call failed after frames were extracted. *)
C7_Witness ==
    /\ pc = "done"
    /\ exc = InferenceError
    /\ calls.inference = 1
    /\ response.kind = "propagated"

(* The images of the user turn: everything after the instruction text. *)
Evidence == Tail(messages)

(* C8: when the inference call is made, the user turn is the instruction   *)
(* text followed by at least one and at most sample_target images, in      *)
(* strictly ascending frame index order, each index in [0, frame_count).   *)
C8_EvidenceSet ==
    (pc = "inference" \/ calls.inference > 0) =>
        /\ messages[1].type = "text"
        /\ \A i \in 1..Len(Evidence) : Evidence[i].type = "image_url"
        /\ Len(Evidence) >= 1
        /\ Len(Evidence) <= budget[1]
        /\ \A i \in 1..(Len(Evidence) - 1) :
                Evidence[i].image_url.payload < Evidence[i + 1].image_url.payload
        /\ \A i \in 1..Len(Evidence) :
                /\ Evidence[i].image_url.payload >= 0
                /\ Evidence[i].image_url.payload < metadata.frame_count

(* The inference call is about to be made with two images, fewer than planned. *)
C8_Witness ==
    /\ pc = "inference"
    /\ Len(Evidence) = 2
    /\ budget[1] = 3
    /\ Evidence[1].image_url.payload < Evidence[2].image_url.payload

(* The instruction as C9 resolves it: the given one, stripped, when that   *)
(* is non-empty, and the default otherwise.                                *)
ClaimedInstruction(instruction) ==
    IF ~IsNone(instruction) /\ Strip(instruction[1]) # <<>> THEN Strip(instruction[1])
    ELSE DefaultInstruction

(* C9: for an absent, empty, whitespace-only or worded instruction, the    *)
(* text of the prompt and the prompt field of the result are the stripped  *)
(* instruction if non-empty and the default instruction otherwise.         *)
C9_ResolvedInstruction ==
    /\ (pc = "inference" \/ calls.inference > 0) =>
            messages[1].text = ClaimedInstruction(request.instruction)
    /\ response.kind = "ok" => response.body.prompt = ClaimedInstruction(request.instruction)

====
